---- MODULE Spec2Model ----
(***************************************************************************)
(* A model of the easy-opengl wrapper: the vertex-attribute layout of      *)
(* buffers.rs, the buffer handles of buffers.rs, the Shader of shader.rs   *)
(* and the Texture2D of textures.rs, each together with the part of the    *)
(* OpenGL context its calls act on.                                         *)
(***************************************************************************)
EXTENDS Integers, Sequences, FiniteSets, Bags, TLC

(***************************************************************************)
(* Bounds of the model.                                                     *)
(***************************************************************************)
\* longest descriptor list the caller builds
MaxAttribs == 3
\* submissions of one descriptor list
MaxSubmits == 2
\* load_from_memory / load_from_file calls on the one Shader
MaxLoads == 2
\* set_uniform calls on the one Shader
MaxSets == 2
\* load and set_uniform calls on the one Shader, taken together
MaxCalls == 4
\* buffer handles created
MaxBuffers == 2
\* VertexArray handles created
MaxArrays == 1

VARIABLES
    \* ---- what the last operation did, as a caller or a GL mock observes it
    op,               \* name of the last operation
    opSelf,           \* the Texture2D handle it was called on (0: not a Texture2D)
    glcalls,          \* the native calls the last operation issued, in order
    stdout,           \* the diagnostics the last operation printed, in order
    panic,            \* "none", or the panic the process is unwinding from
    \* ---- buffers.rs: the caller's Vec<VertexAttrib>
    vertex_attribs,   \* sequence of VertexAttrib records
    submits,          \* number of submit_vertex_attribs calls so far
    \* ---- shader.rs: one Shader and the GL objects behind it
    program,          \* Shader.program
    uniforms_location,\* Shader.uniforms_location: uniform name -> cached location
    shader_state,     \* "live" until the Shader is dropped, then "dropped"
    ret,              \* what the last load returned ("none" before any return)
    loads,            \* number of load calls so far
    setCalls,         \* set_uniform calls that returned so far, per uniform name
    glNextName,       \* next unused name of the shader/program namespace
    glShaders,        \* the shader objects not deleted: records id, type, compiled
    glPrograms,       \* the program objects not deleted: name -> linked, uniforms
    glUniformValues,  \* program name -> the locations a gl::Uniform* call has set
    glCurrentProgram, \* the program made current by UseProgram (0: none)
    glDeletePending,  \* the programs DeleteProgram has flagged while current
    createdPrograms,  \* every name CreateProgram has returned
    deletedPrograms,  \* bag of the non-zero names passed to DeleteProgram
    resolveCalls,     \* bag of the <<program, name>> passed to GetUniformLocation
    \* ---- buffers.rs: the buffer handles and the GL buffer state
    buffers,          \* the handles created so far: kind, id, slot, state
    glBufferNames,    \* the buffer names GenBuffers has handed out, not deleted
    glBuffers,        \* the buffer objects: name -> size, usage, data
    glBufferBinding,  \* target -> the buffer name bound to it (0: none)
    glUniformBase,    \* uniform-buffer binding point -> buffer name (0: none)
    vertex_arrays,    \* the VertexArray handles created so far: id, state
    glVertexArrayNames,   \* the names GenVertexArrays has handed out, not deleted
    glVertexArrays,   \* vertex array name -> its ELEMENT_ARRAY_BUFFER binding
    glVertexArrayBinding, \* the vertex array bound (0: none)
    \* ---- textures.rs: the Texture2D handles and the GL texture state
    textures,         \* handle -> id, width, height, config, state
    glTextures,       \* the texture objects: name -> parameters, image, pixels
    glTextureBinding  \* the name bound to TEXTURE_2D (0: the default texture)

layoutVars == <<vertex_attribs, submits>>
shaderVars == <<program, uniforms_location, shader_state, ret, loads, setCalls,
                glNextName, glShaders, glPrograms, glUniformValues,
                glCurrentProgram, glDeletePending, createdPrograms,
                deletedPrograms, resolveCalls>>
bufferVars == <<buffers, glBufferNames, glBuffers, glBufferBinding, glUniformBase,
                vertex_arrays, glVertexArrayNames, glVertexArrays,
                glVertexArrayBinding>>
textureVars == <<textures, glTextures, glTextureBinding>>
vars == <<op, opSelf, glcalls, stdout, panic, layoutVars, shaderVars, bufferVars, textureVars>>

\* the function f with the value v at k, k being added to its domain if new
Put(f, k, v) == [x \in DOMAIN f \cup {k} |-> IF x = k THEN v ELSE f[x]]

(***************************************************************************)
(* buffers.rs: element types                                                *)
(***************************************************************************)
VertexAttribType ==
    {"Float", "Float2", "Float3", "Float4", "Mat3", "Mat4",
     "Int", "Int2", "Int3", "Int4", "Byte"}

vertex_attrib_type_gl(vtype) ==
    CASE vtype = "Float"  -> "FLOAT"
      [] vtype = "Float2" -> "FLOAT"
      [] vtype = "Float3" -> "FLOAT"
      [] vtype = "Float4" -> "FLOAT"
      [] vtype = "Mat3"   -> "FLOAT"
      [] vtype = "Mat4"   -> "FLOAT"
      [] vtype = "Int"    -> "INT"
      [] vtype = "Int2"   -> "INT"
      [] vtype = "Int3"   -> "INT"
      [] vtype = "Int4"   -> "INT"
      [] vtype = "Byte"   -> "BYTE"

vertex_attrib_type_size(vtype) ==
    CASE vtype = "Float"  -> 4
      [] vtype = "Float2" -> 4 * 2
      [] vtype = "Float3" -> 4 * 3
      [] vtype = "Float4" -> 4 * 4
      [] vtype = "Mat3"   -> 4 * 3 * 3
      [] vtype = "Mat4"   -> 4 * 4 * 4
      [] vtype = "Int"    -> 4
      [] vtype = "Int2"   -> 4 * 2
      [] vtype = "Int3"   -> 4 * 3
      [] vtype = "Int4"   -> 4 * 4
      [] vtype = "Byte"   -> 1

\* a component count that gives a matrix the components of one column
vertex_attrib_type_count_column(vtype) ==
    CASE vtype = "Float"  -> 1
      [] vtype = "Float2" -> 2
      [] vtype = "Float3" -> 3
      [] vtype = "Float4" -> 4
      [] vtype = "Mat3"   -> 3
      [] vtype = "Mat4"   -> 4
      [] vtype = "Int"    -> 1
      [] vtype = "Int2"   -> 2
      [] vtype = "Int3"   -> 3
      [] vtype = "Int4"   -> 4
      [] vtype = "Byte"   -> 1

vertex_attrib_type_count(vtype) ==
    CASE vtype = "Float"  -> 1
      [] vtype = "Float2" -> 2
      [] vtype = "Float3" -> 3
      [] vtype = "Float4" -> 4
      [] vtype = "Mat3"   -> 3 * 3
      [] vtype = "Mat4"   -> 4 * 4
      [] vtype = "Int"    -> 1
      [] vtype = "Int2"   -> 2
      [] vtype = "Int3"   -> 3
      [] vtype = "Int4"   -> 4
      [] vtype = "Byte"   -> 1

\* VertexAttrib::new (the display name plays no part in any call and is left out)
VertexAttrib_new(vtype, normalize) ==
    [size      |-> vertex_attrib_type_size(vtype),
     offset    |-> 0,
     vtype     |-> vtype,
     normalize |-> normalize]

(***************************************************************************)
(* buffers.rs: submit_vertex_attribs                                        *)
(***************************************************************************)
\* value of the local `offset` when the first loop reaches element i (1-based):
\* the sizes of the elements before it, added up in order
RECURSIVE RunningOffset(_, _)
RunningOffset(attribs, i) ==
    IF i <= 1 THEN 0
    ELSE RunningOffset(attribs, i - 1) + attribs[i - 1].size

\* value of the local `stride` after the first loop
RECURSIVE StrideOf(_, _)
StrideOf(attribs, n) ==
    IF n = 0 THEN 0 ELSE StrideOf(attribs, n - 1) + attribs[n].size

\* first loop (lines 118-122): attrib.offset += offset
AssignOffsets(attribs) ==
    [i \in 1..Len(attribs) |->
        [attribs[i] EXCEPT !.offset = @ + RunningOffset(attribs, i)]]

\* a describe call whose test is "not INT" instead of "FLOAT": a byte
\* attribute goes down the floating-point path
DescribeCall_byteAsFloat(attrib, i, stride) ==
    IF vertex_attrib_type_gl(attrib.vtype) # "INT"
    THEN [fn         |-> "VertexAttribPointer",
          index      |-> i,
          size       |-> vertex_attrib_type_count(attrib.vtype),
          type       |-> vertex_attrib_type_gl(attrib.vtype),
          normalized |-> attrib.normalize,
          stride     |-> stride,
          pointer    |-> attrib.offset]
    ELSE [fn         |-> "VertexAttribIPointer",
          index      |-> i,
          size       |-> vertex_attrib_type_count(attrib.vtype),
          type       |-> vertex_attrib_type_gl(attrib.vtype),
          stride     |-> stride,
          pointer    |-> attrib.offset]

\* the describe call of the second loop for the element at slot i (0-based)
DescribeCall(attrib, i, stride) ==
    IF vertex_attrib_type_gl(attrib.vtype) = "FLOAT"
    THEN [fn         |-> "VertexAttribPointer",
          index      |-> i,
          size       |-> vertex_attrib_type_count(attrib.vtype),
          type       |-> vertex_attrib_type_gl(attrib.vtype),
          normalized |-> attrib.normalize,
          stride     |-> stride,
          pointer    |-> attrib.offset]
    ELSE [fn         |-> "VertexAttribIPointer",
          index      |-> i,
          size       |-> vertex_attrib_type_count(attrib.vtype),
          type       |-> vertex_attrib_type_gl(attrib.vtype),
          stride     |-> stride,
          pointer    |-> attrib.offset]

EnableCall(i) == [fn |-> "EnableVertexAttribArray", index |-> i]

\* a second loop whose slot counter starts at 1 instead of 0
RECURSIVE DescribeCallsFromOne(_, _, _)
DescribeCallsFromOne(attribs, n, stride) ==
    IF n = 0 THEN << >>
    ELSE DescribeCallsFromOne(attribs, n - 1, stride)
         \o << DescribeCall(attribs[n], n, stride), EnableCall(n) >>

\* second loop (lines 124-154): the calls issued for the elements 1..n, in order
RECURSIVE DescribeCalls(_, _, _)
DescribeCalls(attribs, n, stride) ==
    IF n = 0 THEN << >>
    ELSE DescribeCalls(attribs, n - 1, stride)
         \o << DescribeCall(attribs[n], n - 1, stride), EnableCall(n - 1) >>

\* the (vtype, normalize) arguments the caller constructs descriptors with:
\* every element type unnormalized, and one float and one integer type normalized
AttribInputs ==
    {<<t, FALSE>> : t \in VertexAttribType} \cup {<<"Float3", TRUE>>, <<"Byte", TRUE>>}

\* the caller pushes VertexAttrib::new(vtype, normalize, name) onto its Vec
PushAttrib ==
    /\ Len(vertex_attribs) < MaxAttribs
    /\ \E a \in AttribInputs :
          vertex_attribs' = Append(vertex_attribs, VertexAttrib_new(a[1], a[2]))
    /\ op' = "VertexAttrib::new"
    /\ glcalls' = << >>
    /\ UNCHANGED <<opSelf, stdout, panic, submits, shaderVars, bufferVars, textureVars>>

submit_vertex_attribs ==
    /\ submits < MaxSubmits
    /\ LET updated == AssignOffsets(vertex_attribs)
           stride  == StrideOf(vertex_attribs, Len(vertex_attribs))
       IN  /\ vertex_attribs' = updated
           /\ glcalls' = DescribeCalls(updated, Len(updated), stride)
    /\ submits' = submits + 1
    /\ op' = "submit_vertex_attribs"
    /\ UNCHANGED <<opSelf, stdout, panic, shaderVars, bufferVars, textureVars>>

(***************************************************************************)
(* shader.rs: Shader                                                        *)
(***************************************************************************)
\* the uniform names the caller uses, and the locations a linked program gives
UniformNames == {"u_a", "u_b"}
\* a name with an interior NUL byte ("u\0a"), which no program has
NulNames == {"u<NUL>a"}
Locations == {-1, 0}

\* the location tables of the linked programs taken: -1 is "no such active
\* uniform", two active uniforms never share a location, and one of the
\* names is an active uniform
Layouts ==
    {l \in [UniformNames -> Locations] :
        /\ \A m, n \in UniformNames : (m # n /\ l[m] >= 0) => l[m] # l[n]
        /\ \E m \in UniformNames : l[m] >= 0}

NoUniforms == [n \in UniformNames |-> -1]

\* the UniformType variants the caller passes, and the call set_uniform makes
UniformType ==
    {"U32", "I32", "Uv2", "Iv2", "Uv3", "Iv3", "Uv4", "Iv4",
     "F32", "F64", "Fv2", "Fv3", "Fv4", "M3", "M4"}

UniformInputs == {"I32", "M4"}

UniformFn(v) ==
    CASE v = "U32" -> "Uniform1ui"
      [] v = "I32" -> "Uniform1i"
      [] v = "Uv2" -> "Uniform2ui"
      [] v = "Iv2" -> "Uniform2i"
      [] v = "Uv3" -> "Uniform3ui"
      [] v = "Iv3" -> "Uniform3i"
      [] v = "Uv4" -> "Uniform4ui"
      [] v = "Iv4" -> "Uniform4i"
      [] v = "M3"  -> "UniformMatrix3fv"
      [] v = "M4"  -> "UniformMatrix4fv"
      [] v = "F32" -> "Uniform1f"
      [] v = "F64" -> "Uniform1d"
      [] v = "Fv2" -> "Uniform2f"
      [] v = "Fv3" -> "Uniform3f"
      [] v = "Fv4" -> "Uniform4f"

get_shader_type(type) ==
    IF type = 0 THEN "VERTEX_SHADER"
    ELSE IF type = 1 THEN "FRAGMENT_SHADER"
    ELSE "GEOMETRY_SHADER"

get_shader_name(type) ==
    IF type = 0 THEN "vertex"
    ELSE IF type = 1 THEN "fragment"
    ELSE "geometry"

\* the _type argument load_from_memory / load_from_file pass to compile_shader
\* for the vertex, the fragment and the optional geometry source
StageTypes(n) == IF n = 3 THEN <<0, 1, 1>> ELSE <<0, 1>>

\* gl::GetUniformLocation: -1 unless the program is a linked program object
\* with an active uniform of that name
GetUniformLocation(p, name) ==
    IF /\ p \in DOMAIN glPrograms
       /\ glPrograms[p].linked
       /\ name \in DOMAIN glPrograms[p].uniforms
    THEN glPrograms[p].uniforms[name]
    ELSE -1

\* A stage source as the load sees it:
\*   exists    load_from_file: File::open succeeds
\*   readable  load_from_file: read_to_string succeeds (the file is UTF-8)
\*   nul       the source text holds an interior NUL byte, so that
\*             CString::new(..).unwrap() panics
\*   ok        the driver compiles it
\*   logok     on a compile failure, the 511 bytes of info_log, whose tail past
\*             the driver's text is uninitialised, are valid UTF-8, so that
\*             from_utf8(..).unwrap() returns instead of panicking
\* (what a load never gets to look at is left at its harmless value)
Stages(fromFile) ==
    {s \in [exists : BOOLEAN, readable : BOOLEAN, nul : BOOLEAN,
            ok : BOOLEAN, logok : BOOLEAN] :
        /\ (~fromFile => s.exists /\ s.readable)
        /\ (~s.exists => s.readable /\ ~s.nul /\ s.ok)
        /\ (~s.readable => ~s.nul /\ s.ok)
        /\ (s.nul => s.ok)
        /\ (s.ok => s.logok)}

\* the panic a stage ends the load with, "none" if the load gets past it
PanicOf(s) ==
    IF ~s.exists THEN "Couldn't open the file"
    ELSE IF ~s.readable THEN "Couldn't read the file"
    ELSE IF s.nul THEN "NulError"
    ELSE IF ~s.ok /\ ~s.logok THEN "Utf8Error"
    ELSE "none"

\* the first stage at which the load panics, Len(src) + 1 if none does
RECURSIVE PanicAt(_, _)
PanicAt(src, i) ==
    IF i > Len(src) THEN i
    ELSE IF PanicOf(src[i]) # "none" THEN i
    ELSE PanicAt(src, i + 1)

\* the n stage sources of a load, each of any kind: a stage may fail to
\* compile and print its diagnostic before a later one panics
StageInputs(n, fromFile) == [1..n -> Stages(fromFile)]

\* a load stops at the stage that panics and never reads the sources after
\* it: two inputs that differ only there take the same step, and the one
\* written with sources that compile stands for them all
ReadUpToPanic(src) ==
    \A i \in 1..Len(src) :
        i > PanicAt(src, 1) =>
            src[i] = [exists |-> TRUE, readable |-> TRUE, nul |-> FALSE,
                      ok |-> TRUE, logok |-> TRUE]

\* compile_shader: the calls it issues for the unit named id; a source with a
\* NUL byte ends it right after CreateShader
CompileCalls(id, type, s) ==
    << [fn |-> "CreateShader", type |-> get_shader_type(type), ret |-> id] >>
    \o (IF s.nul THEN << >>
        ELSE << [fn |-> "ShaderSource", shader |-> id],
                [fn |-> "CompileShader", shader |-> id],
                [fn |-> "GetShaderiv", shader |-> id, ret |-> s.ok] >>
             \o (IF s.ok THEN << >>
                 ELSE << [fn |-> "GetShaderInfoLog", shader |-> id] >>))

\* compile_shader: what it prints for a unit, when it gets to print
CompilePrints(type, s) ==
    IF s.ok THEN << >>
    ELSE << [msg |-> "Compiling shader fail", stage |-> get_shader_name(type)] >>

\* the compile_shader calls of the stages 1..k, the first unit being named first
RECURSIVE StageCalls(_, _, _, _)
StageCalls(src, types, first, k) ==
    IF k = 0 THEN << >>
    ELSE StageCalls(src, types, first, k - 1)
         \o CompileCalls(first + k - 1, types[k], src[k])

RECURSIVE StagePrints(_, _, _)
StagePrints(src, types, k) ==
    IF k = 0 THEN << >>
    ELSE StagePrints(src, types, k - 1) \o CompilePrints(types[k], src[k])

\* the local `fail` after the stages 1..k: each failing compile does *fail |= true
RECURSIVE FailAfter(_, _)
FailAfter(src, k) ==
    IF k = 0 THEN FALSE ELSE FailAfter(src, k - 1) \/ ~src[k].ok

\* the shader objects the stages 1..k leave behind
Units(src, types, first, k) ==
    {[id |-> first + i - 1, type |-> get_shader_type(types[i]),
      compiled |-> src[i].ok /\ ~src[i].nul] :
        i \in 1..k}

\* create_shader_program: the linker log is fetched and never printed
CreateProgramCalls(p, first, n, linked) ==
    << [fn |-> "CreateProgram", ret |-> p] >>
    \o [i \in 1..n |-> [fn |-> "AttachShader", program |-> p, shader |-> first + i - 1]]
    \o << [fn |-> "LinkProgram", program |-> p],
          [fn |-> "GetProgramiv", program |-> p, ret |-> linked] >>
    \o (IF linked THEN << >> ELSE << [fn |-> "GetProgramInfoLog", program |-> p] >>)

\* delete_shaders
DeleteShaderCalls(first, n) ==
    [i \in 1..n |-> [fn |-> "DeleteShader", shader |-> first + i - 1]]

\* the units that delete_shaders removed from the context
DeletedUnits(calls) ==
    {calls[k].shader : k \in {j \in 1..Len(calls) : calls[j].fn = "DeleteShader"}}

\* load_from_memory / load_from_file, which differ in reading the sources from
\* files; src are the n stage sources, linked the link status the driver gives
\* (never success when a unit failed to compile), layout the uniform table
Load(name, src, linked, layout) ==
    LET n      == Len(src)
        types  == StageTypes(n)
        first  == glNextName
        at     == PanicAt(src, 1)
        \* stages whose compile_shader got to CreateShader
        made   == IF at <= n /\ PanicOf(src[at]) \in {"NulError", "Utf8Error"}
                  THEN at ELSE at - 1
        \* stages whose compile_shader returned
        done   == at - 1
        p      == first + n
        del    == DeleteShaderCalls(first, n)
    IN  /\ op' = name
        /\ loads' = loads + 1
        /\ IF at <= n
           THEN \* the load panics: a file that cannot be opened or read, a
                \* source with a NUL byte, or a compiler log that is not UTF-8
                /\ panic' = PanicOf(src[at])
                /\ glcalls' = StageCalls(src, types, first, made)
                /\ stdout' = StagePrints(src, types, done)
                /\ glShaders' = glShaders \cup Units(src, types, first, made)
                /\ glNextName' = first + made
                /\ UNCHANGED <<program, ret, glPrograms, glUniformValues,
                               createdPrograms>>
           ELSE /\ panic' = "none"
                /\ glcalls' = StageCalls(src, types, first, n)
                              \o CreateProgramCalls(p, first, n, linked)
                              \o del
                /\ stdout' = StagePrints(src, types, n)
                /\ glShaders' = {u \in glShaders \cup Units(src, types, first, n) :
                                    u.id \notin DeletedUnits(del)}
                /\ glNextName' = p + 1
                /\ glPrograms' =
                      Put(glPrograms, p,
                          [linked |-> linked,
                           uniforms |-> IF linked THEN layout ELSE NoUniforms])
                /\ glUniformValues' = Put(glUniformValues, p, {})
                /\ createdPrograms' = createdPrograms \cup {p}
                /\ program' = p
                /\ ret' = (FailAfter(src, n) \/ ~linked)
        /\ UNCHANGED <<opSelf, uniforms_location, shader_state, setCalls,
                       glCurrentProgram, glDeletePending,
                       deletedPrograms, resolveCalls, layoutVars, bufferVars,
                       textureVars>>

\* set_uniform calls that returned so far
TotalSets == setCalls["u_a"] + setCalls["u_b"]

Shader_load_from_memory ==
    /\ shader_state = "live" /\ panic = "none" /\ loads < MaxLoads
    /\ loads + TotalSets < MaxCalls
    /\ \E n \in {2, 3} : \E src \in StageInputs(n, FALSE) :
       /\ ReadUpToPanic(src)
       /\ IF PanicAt(src, 1) <= n
          THEN Load("Shader::load_from_memory", src, FALSE, NoUniforms)
          ELSE \E linked \in BOOLEAN, layout \in Layouts \cup {NoUniforms} :
                  /\ (linked => ~FailAfter(src, n))
                  /\ (linked = (layout \in Layouts))
                  /\ Load("Shader::load_from_memory", src, linked, layout)

Shader_load_from_file ==
    /\ shader_state = "live" /\ panic = "none" /\ loads < MaxLoads
    /\ loads + TotalSets < MaxCalls
    /\ \E n \in {2, 3} : \E src \in StageInputs(n, TRUE) :
       /\ ReadUpToPanic(src)
       /\ IF PanicAt(src, 1) <= n
          THEN Load("Shader::load_from_file", src, FALSE, NoUniforms)
          ELSE \E linked \in BOOLEAN, layout \in Layouts \cup {NoUniforms} :
                  /\ (linked => ~FailAfter(src, n))
                  /\ (linked = (layout \in Layouts))
                  /\ Load("Shader::load_from_file", src, linked, layout)

\* gl::UseProgram: the name 0 makes no program current; a name that is not a
\* linked program object is an error and leaves the current program as it is
glUseProgram(p) ==
    IF p = 0 THEN 0
    ELSE IF p \in DOMAIN glPrograms /\ glPrograms[p].linked THEN p
    ELSE glCurrentProgram

\* a program whose deletion was asked for while it was current goes when it
\* stops being current
UseProgram(p) ==
    LET cur  == glUseProgram(p)
        gone == IF cur # glCurrentProgram THEN glDeletePending ELSE {}
    IN  /\ glCurrentProgram' = cur
        /\ glPrograms' = [q \in DOMAIN glPrograms \ gone |-> glPrograms[q]]
        /\ glUniformValues' = [q \in DOMAIN glUniformValues \ gone |-> glUniformValues[q]]
        /\ glDeletePending' = glDeletePending \ gone

\* Shader::bind
Shader_bind ==
    /\ shader_state = "live" /\ panic = "none"
    /\ UseProgram(program)
    /\ glcalls' = << [fn |-> "UseProgram", program |-> program] >>
    /\ stdout' = << >>
    /\ op' = "Shader::bind"
    /\ UNCHANGED <<opSelf, panic, program, uniforms_location, shader_state, ret,
                   loads, setCalls, glNextName, glShaders, createdPrograms,
                   deletedPrograms, resolveCalls, layoutVars, bufferVars,
                   textureVars>>

\* Shader::unbind
Shader_unbind ==
    /\ shader_state = "live" /\ panic = "none"
    /\ UseProgram(0)
    /\ glcalls' = << [fn |-> "UseProgram", program |-> 0] >>
    /\ stdout' = << >>
    /\ op' = "Shader::unbind"
    /\ UNCHANGED <<opSelf, panic, program, uniforms_location, shader_state, ret,
                   loads, setCalls, glNextName, glShaders, createdPrograms,
                   deletedPrograms, resolveCalls, layoutVars, bufferVars,
                   textureVars>>

\* a get_uniform_locacion without the contains_key test: it resolves every time
get_uniform_locacion_nocache(name) ==
    [hit |-> FALSE, nul |-> name \in NulNames,
     location |-> GetUniformLocation(program, name)]

\* get_uniform_locacion: hit says that the cache answered, nul that
\* CString::new(name).unwrap() panics; location is returned otherwise
get_uniform_locacion(name) ==
    IF name \in DOMAIN uniforms_location
    THEN [hit |-> TRUE, nul |-> FALSE, location |-> uniforms_location[name]]
    ELSE [hit |-> FALSE, nul |-> name \in NulNames,
          location |-> GetUniformLocation(program, name)]

\* gl::Uniform*: the value goes to the current program, at a location that
\* is one of its active uniforms; anything else changes nothing
glUniform(location) ==
    IF /\ glCurrentProgram \in DOMAIN glPrograms
       /\ location >= 0
       /\ \E n \in UniformNames : glPrograms[glCurrentProgram].uniforms[n] = location
    THEN [glUniformValues EXCEPT ![glCurrentProgram] = @ \cup {location}]
    ELSE glUniformValues

Shader_set_uniform ==
    /\ shader_state = "live" /\ panic = "none"
    /\ \E name \in UniformNames \cup NulNames, v \in UniformInputs :
          LET r == get_uniform_locacion(name)
          IN  /\ TotalSets < MaxSets /\ loads + TotalSets < MaxCalls
              /\ IF r.hit
                 THEN /\ glcalls' = << [fn |-> UniformFn(v), location |-> r.location] >>
                      /\ glUniformValues' = glUniform(r.location)
                      /\ setCalls' = [setCalls EXCEPT ![name] = @ + 1]
                      /\ UNCHANGED <<uniforms_location, resolveCalls, panic>>
                 ELSE IF r.nul
                 THEN /\ panic' = "NulError"
                      /\ glcalls' = << >>
                      /\ UNCHANGED <<uniforms_location, resolveCalls, setCalls,
                                     glUniformValues>>
                 ELSE /\ glcalls' =
                          << [fn |-> "GetUniformLocation", program |-> program,
                              name |-> name, ret |-> r.location],
                             [fn |-> UniformFn(v), location |-> r.location] >>
                      /\ glUniformValues' = glUniform(r.location)
                      /\ setCalls' = [setCalls EXCEPT ![name] = @ + 1]
                      /\ uniforms_location' = Put(uniforms_location, name, r.location)
                      /\ resolveCalls' = resolveCalls (+) SetToBag({<<program, name>>})
                      /\ UNCHANGED panic
              /\ op' = "Shader::set_uniform"
              /\ stdout' = << >>
    /\ UNCHANGED <<opSelf, program, shader_state, ret, loads, glNextName, glShaders,
                   glPrograms, glCurrentProgram, glDeletePending, createdPrograms,
                   deletedPrograms, layoutVars, bufferVars, textureVars>>

\* gl::DeleteProgram: the name 0 is ignored; the current program is only
\* flagged, and goes when it stops being current
DeletedNow(p) ==
    IF p \in DOMAIN glPrograms /\ p # glCurrentProgram THEN {p} ELSE {}

\* Drop for Shader: DeleteProgram(self.program)
Shader_drop ==
    /\ shader_state = "live"
    /\ shader_state' = "dropped"
    /\ op' = "Shader::drop"
    /\ glcalls' = << [fn |-> "DeleteProgram", program |-> program] >>
    /\ stdout' = << >>
    /\ glPrograms' = [q \in DOMAIN glPrograms \ DeletedNow(program) |-> glPrograms[q]]
    /\ glUniformValues' =
          [q \in DOMAIN glUniformValues \ DeletedNow(program) |-> glUniformValues[q]]
    /\ glDeletePending' =
          IF program \in DOMAIN glPrograms /\ program = glCurrentProgram
          THEN glDeletePending \cup {program}
          ELSE glDeletePending
    /\ deletedPrograms' =
          IF program = 0 THEN deletedPrograms
          ELSE deletedPrograms (+) SetToBag({program})
    /\ UNCHANGED <<opSelf, panic, program, uniforms_location, ret, loads, setCalls,
                   glNextName, glShaders, glCurrentProgram, createdPrograms,
                   resolveCalls, layoutVars, bufferVars, textureVars>>

(***************************************************************************)
(* buffers.rs: VertexBuffer, IndexBuffer, UniforBuffer and the GL buffer    *)
(* state of a context with a default vertex array.  The GL state is the     *)
(* record [names, objs, bind, base] of the four gl* variables.              *)
(***************************************************************************)
\* the buffer sizes in bytes the caller asks for, and the offsets it writes at
BufSizes == {1, 2}
BufOffsets == {0, 1}
\* the payloads the caller writes; 0 stands for unspecified contents
Payloads == {1}
UniformSlots == {0, 1}
BufferTargets == {"ARRAY_BUFFER", "ELEMENT_ARRAY_BUFFER", "UNIFORM_BUFFER"}

GLBufferState ==
    [names |-> glBufferNames, objs |-> glBuffers,
     bind  |-> glBufferBinding, base |-> glUniformBase,
     vnames |-> glVertexArrayNames, vaos |-> glVertexArrays,
     vao |-> glVertexArrayBinding]

\* gl::GenBuffers(1, ..): a name that is not in use
GenName(g) == CHOOSE n \in 1..(MaxBuffers + 2) :
                  /\ n \notin g.names
                  /\ \A m \in 1..(n - 1) : m \in g.names

\* a buffer object comes to exist when its name is first bound
Touch(objs, name) ==
    IF name = 0 \/ name \in DOMAIN objs THEN objs
    ELSE Put(objs, name, [size |-> 0, usage |-> "none", data |-> << >>])

\* a buffer object lives while its name is in use or a vertex array holds it
Sweep(g) ==
    [g EXCEPT !.objs =
        [n \in {m \in DOMAIN g.objs :
                   m \in g.names \/ \E v \in DOMAIN g.vaos : g.vaos[v] = m} |->
            g.objs[n]]]

\* gl::BindBuffer; the ELEMENT_ARRAY_BUFFER binding is state of the vertex
\* array that is bound
glBindBuffer(g, target, name) ==
    Sweep([g EXCEPT !.bind = [@ EXCEPT ![target] = name],
                    !.objs = Touch(@, name),
                    !.vaos = IF target = "ELEMENT_ARRAY_BUFFER"
                             THEN [@ EXCEPT ![g.vao] = name] ELSE @])

\* gl::BindBufferBase binds the indexed point and the generic target
glBindBufferBase(g, slot, name) ==
    [g EXCEPT !.base = [@ EXCEPT ![slot] = name],
              !.bind = [@ EXCEPT !["UNIFORM_BUFFER"] = name],
              !.objs = Touch(@, name)]

\* gl::BufferData gives the buffer bound to the target a new data store;
\* with no buffer bound it is an INVALID_OPERATION and does nothing
glBufferData(g, target, size, payload, usage) ==
    IF g.bind[target] = 0 THEN g
    ELSE [g EXCEPT !.objs = [@ EXCEPT ![g.bind[target]] =
            [size |-> size, usage |-> usage, data |-> [i \in 1..size |-> payload]]]]

\* gl::BufferSubData writes into the buffer bound to the target; with no
\* buffer bound, or a range outside the data store, it does nothing
glBufferSubData(g, target, offset, size, payload) ==
    IF g.bind[target] = 0 THEN g
    ELSE IF offset + size > g.objs[g.bind[target]].size THEN g
    ELSE [g EXCEPT !.objs = [@ EXCEPT ![g.bind[target]].data =
            [i \in DOMAIN @ |->
                IF i > offset /\ i <= offset + size THEN payload ELSE @[i]]]]

\* gl::DeleteBuffers: the name is free again and every binding to it in the
\* current state, that of the bound vertex array included, reverts to 0; a
\* vertex array that is not bound keeps the buffer, and the object with it
glDeleteBuffers(g, name) ==
    Sweep([g EXCEPT
        !.names = @ \ {name},
        !.bind  = [t \in DOMAIN @ |-> IF @[t] = name THEN 0 ELSE @[t]],
        !.base  = [k \in DOMAIN @ |-> IF @[k] = name THEN 0 ELSE @[k]],
        !.vaos  = [@ EXCEPT ![g.vao] = IF @ = name THEN 0 ELSE @]])

\* gl::GenVertexArrays(1, ..): a name that is not in use
GenVertexArrayName(g) == CHOOSE n \in 1..(MaxArrays + 1) :
                            /\ n \notin g.vnames
                            /\ \A m \in 1..(n - 1) : m \in g.vnames

\* gl::BindVertexArray: the vertex array object comes to exist when its name
\* is first bound, and brings its ELEMENT_ARRAY_BUFFER binding with it; the
\* name 0 stands for the state with no vertex array bound
glBindVertexArray(g, name) ==
    LET vaos == IF name \in DOMAIN g.vaos THEN g.vaos ELSE Put(g.vaos, name, 0)
    IN  [g EXCEPT !.vao  = name,
                  !.vaos = vaos,
                  !.bind = [@ EXCEPT !["ELEMENT_ARRAY_BUFFER"] = vaos[name]]]

\* gl::DeleteVertexArrays: the object goes; if it was bound, no vertex array is
glDeleteVertexArrays(g, name) ==
    LET vaos == [v \in DOMAIN g.vaos \ {name} |-> g.vaos[v]]
        vao  == IF g.vao = name THEN 0 ELSE g.vao
    IN  Sweep([g EXCEPT !.vnames = @ \ {name},
                        !.vaos   = vaos,
                        !.vao    = vao,
                        !.bind   = [@ EXCEPT !["ELEMENT_ARRAY_BUFFER"] = vaos[vao]]])

SetGL(g) ==
    /\ glBufferNames' = g.names
    /\ glBuffers' = g.objs
    /\ glBufferBinding' = g.bind
    /\ glUniformBase' = g.base
    /\ glVertexArrayNames' = g.vnames
    /\ glVertexArrays' = g.vaos
    /\ glVertexArrayBinding' = g.vao

BufferTarget(kind) ==
    CASE kind = "VertexBuffer" -> "ARRAY_BUFFER"
      [] kind = "IndexBuffer"  -> "ELEMENT_ARRAY_BUFFER"
      [] kind = "UniforBuffer" -> "UNIFORM_BUFFER"

BufferFrame == UNCHANGED <<opSelf, stdout, panic, layoutVars, shaderVars, textureVars>>

\* VertexArray::new: gen_vao
VertexArray_new ==
    LET g0 == GLBufferState
        id == GenVertexArrayName(g0)
    IN  /\ Len(vertex_arrays) < MaxArrays
        /\ vertex_arrays' = Append(vertex_arrays, [id |-> id, state |-> "live"])
        /\ SetGL([g0 EXCEPT !.vnames = @ \cup {id}])
        /\ glcalls' = << [fn |-> "GenVertexArrays", ret |-> id] >>
        /\ op' = "VertexArray::new"
        /\ UNCHANGED buffers
        /\ BufferFrame

LiveArrays == {h \in 1..Len(vertex_arrays) : vertex_arrays[h].state = "live"}

\* VertexArray::bind
VertexArray_bind ==
    \E h \in LiveArrays :
        /\ SetGL(glBindVertexArray(GLBufferState, vertex_arrays[h].id))
        /\ glcalls' = << [fn |-> "BindVertexArray", array |-> vertex_arrays[h].id] >>
        /\ op' = "VertexArray::bind"
        /\ UNCHANGED <<buffers, vertex_arrays>>
        /\ BufferFrame

\* VertexArray::unbind
VertexArray_unbind ==
    \E h \in LiveArrays :
        /\ SetGL(glBindVertexArray(GLBufferState, 0))
        /\ glcalls' = << [fn |-> "BindVertexArray", array |-> 0] >>
        /\ op' = "VertexArray::unbind"
        /\ UNCHANGED <<buffers, vertex_arrays>>
        /\ BufferFrame

\* Drop for VertexArray: DeleteVertexArrays(1, &self.id)
VertexArray_drop ==
    \E h \in LiveArrays :
        /\ SetGL(glDeleteVertexArrays(GLBufferState, vertex_arrays[h].id))
        /\ vertex_arrays' = [vertex_arrays EXCEPT ![h].state = "dropped"]
        /\ glcalls' = << [fn |-> "DeleteVertexArrays", array |-> vertex_arrays[h].id] >>
        /\ op' = "VertexArray::drop"
        /\ UNCHANGED buffers
        /\ BufferFrame

\* VertexBuffer::new and IndexBuffer::new: gen_buffer, bind, BufferData.
\* payload 0 is the None argument (null pointer, DYNAMIC_DRAW).
ArrayBuffer_new(kind, size, payload) ==
    LET g0     == GLBufferState
        id     == GenName(g0)
        target == BufferTarget(kind)
        usage  == IF payload = 0 THEN "DYNAMIC_DRAW" ELSE "STATIC_DRAW"
        g1     == [g0 EXCEPT !.names = @ \cup {id}]
        g2     == glBindBuffer(g1, target, id)
        g3     == glBufferData(g2, target, size, payload, usage)
    IN  /\ Len(buffers) < MaxBuffers
        /\ buffers' = Append(buffers,
              [kind |-> kind, id |-> id, slot |-> 0, state |-> "live"])
        /\ SetGL(g3)
        /\ glcalls' = << [fn |-> "GenBuffers", ret |-> id],
                         [fn |-> "BindBuffer", target |-> target, buffer |-> id],
                         [fn |-> "BufferData", target |-> target, size |-> size,
                          usage |-> usage] >>
        /\ op' = kind \o "::new"
        /\ UNCHANGED vertex_arrays
        /\ BufferFrame

VertexBuffer_new ==
    \E size \in BufSizes, payload \in {0} \cup Payloads :
        ArrayBuffer_new("VertexBuffer", size, payload)

IndexBuffer_new ==
    \E size \in BufSizes, payload \in {0} \cup Payloads :
        ArrayBuffer_new("IndexBuffer", size, payload)

\* UniforBuffer::new: gen_buffer, then BufferData on whatever is bound to
\* UNIFORM_BUFFER, then BindBufferBase of the new buffer
UniforBuffer_new(size, binding) ==
    LET g0 == GLBufferState
        id == GenName(g0)
        g1 == [g0 EXCEPT !.names = @ \cup {id}]
        g2 == glBufferData(g1, "UNIFORM_BUFFER", size, 0, "DYNAMIC_DRAW")
        g3 == glBindBufferBase(g2, binding, id)
    IN  /\ Len(buffers) < MaxBuffers
        /\ buffers' = Append(buffers,
              [kind |-> "UniforBuffer", id |-> id, slot |-> binding, state |-> "live"])
        /\ SetGL(g3)
        /\ glcalls' = << [fn |-> "GenBuffers", ret |-> id],
                         [fn |-> "BufferData", target |-> "UNIFORM_BUFFER",
                          size |-> size, usage |-> "DYNAMIC_DRAW"],
                         [fn |-> "BindBufferBase", target |-> "UNIFORM_BUFFER",
                          index |-> binding, buffer |-> id] >>
        /\ op' = "UniforBuffer::new"
        /\ UNCHANGED vertex_arrays
        /\ BufferFrame

UniforBuffer_create ==
    \E size \in BufSizes, binding \in UniformSlots : UniforBuffer_new(size, binding)

LiveBuffers(kinds) ==
    {h \in 1..Len(buffers) : buffers[h].state = "live" /\ buffers[h].kind \in kinds}

\* VertexBuffer::bind, IndexBuffer::bind
Buffer_bind ==
    \E h \in LiveBuffers({"VertexBuffer", "IndexBuffer"}) :
        LET target == BufferTarget(buffers[h].kind)
        IN  /\ SetGL(glBindBuffer(GLBufferState, target, buffers[h].id))
            /\ glcalls' = << [fn |-> "BindBuffer", target |-> target,
                              buffer |-> buffers[h].id] >>
            /\ op' = buffers[h].kind \o "::bind"
            /\ UNCHANGED buffers
            /\ UNCHANGED vertex_arrays
            /\ BufferFrame

\* VertexBuffer::unbind, IndexBuffer::unbind
Buffer_unbind ==
    \E h \in LiveBuffers({"VertexBuffer", "IndexBuffer"}) :
        LET target == BufferTarget(buffers[h].kind)
        IN  /\ SetGL(glBindBuffer(GLBufferState, target, 0))
            /\ glcalls' = << [fn |-> "BindBuffer", target |-> target, buffer |-> 0] >>
            /\ op' = buffers[h].kind \o "::unbind"
            /\ UNCHANGED buffers
            /\ UNCHANGED vertex_arrays
            /\ BufferFrame

\* VertexBuffer::send_data, IndexBuffer::send_data: bind, then BufferSubData
ArrayBuffer_send_data ==
    \E h \in LiveBuffers({"VertexBuffer", "IndexBuffer"}) :
    \E size \in BufSizes, offset \in BufOffsets, payload \in Payloads :
        LET target == BufferTarget(buffers[h].kind)
            g1     == glBindBuffer(GLBufferState, target, buffers[h].id)
            g2     == glBufferSubData(g1, target, offset, size, payload)
        IN  /\ SetGL(g2)
            /\ glcalls' = << [fn |-> "BindBuffer", target |-> target,
                              buffer |-> buffers[h].id],
                             [fn |-> "BufferSubData", target |-> target,
                              offset |-> offset, size |-> size] >>
            /\ op' = buffers[h].kind \o "::send_data"
            /\ UNCHANGED buffers
            /\ UNCHANGED vertex_arrays
            /\ BufferFrame

\* UniforBuffer::send_data: BindBufferBase, then BufferSubData
UniforBuffer_send_data ==
    \E h \in LiveBuffers({"UniforBuffer"}) :
    \E size \in BufSizes, offset \in BufOffsets, payload \in Payloads :
        LET g1 == glBindBufferBase(GLBufferState, buffers[h].slot, buffers[h].id)
            g2 == glBufferSubData(g1, "UNIFORM_BUFFER", offset, size, payload)
        IN  /\ SetGL(g2)
            /\ glcalls' = << [fn |-> "BindBufferBase", target |-> "UNIFORM_BUFFER",
                              index |-> buffers[h].slot, buffer |-> buffers[h].id],
                             [fn |-> "BufferSubData", target |-> "UNIFORM_BUFFER",
                              offset |-> offset, size |-> size] >>
            /\ op' = "UniforBuffer::send_data"
            /\ UNCHANGED buffers
            /\ UNCHANGED vertex_arrays
            /\ BufferFrame

\* Drop for VertexBuffer, IndexBuffer, UniforBuffer: DeleteBuffers(1, &self.id)
Buffer_drop ==
    \E h \in LiveBuffers({"VertexBuffer", "IndexBuffer", "UniforBuffer"}) :
        /\ SetGL(glDeleteBuffers(GLBufferState, buffers[h].id))
        /\ buffers' = [buffers EXCEPT ![h].state = "dropped"]
        /\ glcalls' = << [fn |-> "DeleteBuffers", buffer |-> buffers[h].id] >>
        /\ op' = buffers[h].kind \o "::drop"
        /\ UNCHANGED vertex_arrays
        /\ BufferFrame

(***************************************************************************)
(* textures.rs: Texture2D and the GL texture state                          *)
(***************************************************************************)
\* TextureConfig::new: the only configuration a caller can build, the fields
\* being private
TextureConfig_new ==
    [min_filter |-> "Nearest", mag_filter |-> "Linear",
     wrap_s |-> "Repeat", wrap_t |-> "Repeat",
     format |-> "Rgb", internal_format |-> "Rgba", bitmap |-> TRUE]

\* Option::None (and a null pointer); every Some value is a record with other fields
None == [none |-> TRUE]

\* the Texture2D handles the caller holds
TextureHandles == {1, 2}

\* Texture2D::new; state is "live" until the handle is dropped
Texture2D_new ==
    [id |-> 0, width |-> 0, height |-> 0, config |-> None, state |-> "live"]

\* the image sides, decoded channel counts and written regions of the inputs
TexSides == {1, 2}
Channels == {1, 3, 4}
Regions == {[x |-> 0, y |-> 0, w |-> 1, h |-> 1], [x |-> 1, y |-> 1, w |-> 1, h |-> 1]}

\* gl::GenTextures(1, ..): a name that is not in use
GenTextureName == CHOOSE n \in 1..(Cardinality(TextureHandles) + 1) :
                     /\ n \notin DOMAIN glTextures
                     /\ \A m \in 1..(n - 1) : m \in DOMAIN glTextures

\* the calls every configuration operation starts with
ConfigureCalls(id, config) ==
    << [fn |-> "GenTextures", ret |-> id],
       [fn |-> "BindTexture", target |-> "TEXTURE_2D", texture |-> id],
       [fn |-> "TexParameteri", pname |-> "TEXTURE_WRAP_S", param |-> config.wrap_s],
       [fn |-> "TexParameteri", pname |-> "TEXTURE_WRAP_T", param |-> config.wrap_t],
       [fn |-> "TexParameteri", pname |-> "TEXTURE_MIN_FILTER", param |-> config.min_filter],
       [fn |-> "TexParameteri", pname |-> "TEXTURE_MAG_FILTER", param |-> config.mag_filter] >>

\* the texture object those calls leave: parameters set, no image yet;
\* subimages are the regions of the image that TexSubImage2D has overwritten
ConfiguredObject(config) ==
    [wrap_s |-> config.wrap_s, wrap_t |-> config.wrap_t,
     min_filter |-> config.min_filter, mag_filter |-> config.mag_filter,
     image |-> None, mipmaps |-> FALSE, subimages |-> {}]

TexImage2DCall(config, width, height) ==
    [fn |-> "TexImage2D", internalformat |-> config.internal_format,
     width |-> width, height |-> height, format |-> config.format]

AlreadyCreated == << [msg |-> "Texture already created"] >>

TextureFrame == UNCHANGED <<layoutVars, shaderVars, bufferVars>>

LiveTextures == {h \in TextureHandles : textures[h].state = "live"}

\* self.config.is_some()
Configured(h) == textures[h].config # None

Texture2D_gen_texture_unguarded(h) ==
    LET config == TextureConfig_new
        id     == GenTextureName
    IN  /\ textures' = [textures EXCEPT ![h].config = config, ![h].id = id]
        /\ glTextures' = Put(glTextures, id, ConfiguredObject(config))
        /\ glTextureBinding' = id
        /\ glcalls' = ConfigureCalls(id, config)
        /\ stdout' = << >>
        /\ op' = "Texture2D::gen_texture"
        /\ opSelf' = h
        /\ UNCHANGED panic

Texture2D_gen_texture(h) ==
    LET config == TextureConfig_new
        id     == GenTextureName
    IN  /\ IF Configured(h)
           THEN /\ stdout' = AlreadyCreated
                /\ glcalls' = << >>
                /\ UNCHANGED <<textures, glTextures, glTextureBinding>>
           ELSE /\ textures' = [textures EXCEPT ![h].config = config, ![h].id = id]
                /\ glTextures' = Put(glTextures, id, ConfiguredObject(config))
                /\ glTextureBinding' = id
                /\ glcalls' = ConfigureCalls(id, config)
                /\ stdout' = << >>
        /\ op' = "Texture2D::gen_texture"
        /\ opSelf' = h
        /\ UNCHANGED panic

Texture2D_load_from_memory(h, width, height) ==
    LET config == TextureConfig_new
        id     == GenTextureName
    IN  /\ IF Configured(h)
           THEN /\ stdout' = AlreadyCreated
                /\ glcalls' = << >>
                /\ UNCHANGED <<textures, glTextures, glTextureBinding>>
           ELSE /\ textures' = [textures EXCEPT ![h].config = config, ![h].id = id]
                /\ glTextures' = Put(glTextures, id,
                      [ConfiguredObject(config) EXCEPT
                          !.image = [width |-> width, height |-> height,
                                     format |-> config.format]])
                /\ glTextureBinding' = id
                /\ glcalls' = ConfigureCalls(id, config)
                              \o << TexImage2DCall(config, width, height) >>
                /\ stdout' = << >>
        /\ op' = "Texture2D::load_from_memory"
        /\ opSelf' = h
        /\ UNCHANGED panic

\* the format load_from_file takes from the decoded channel count
FormatOfChannels(channels) ==
    IF channels = 1 THEN "Red"
    ELSE IF channels = 3 THEN "Rgb"
    ELSE "Rgba"

\* a file path with an interior NUL byte, which CString::new refuses
NulPath == [nul |-> TRUE]

\* decoded is NulPath when the path holds a NUL byte, None when stbi_load
\* returns null, else width, height, channels
Texture2D_load_from_file(h, decoded) ==
    LET config == [TextureConfig_new EXCEPT
                      !.format = IF decoded \in {None, NulPath} THEN @
                                 ELSE FormatOfChannels(decoded.channels)]
        id     == GenTextureName
    IN  /\ op' = "Texture2D::load_from_file"
        /\ opSelf' = h
        /\ IF Configured(h)
           THEN /\ stdout' = AlreadyCreated
                /\ glcalls' = << >>
                /\ UNCHANGED <<textures, glTextures, glTextureBinding, panic>>
           ELSE IF decoded \in {None, NulPath}
           THEN \* self.config is set before the path is converted and the
                \* decoder is asked
                /\ textures' = [textures EXCEPT ![h].config = config]
                /\ panic' = IF decoded = NulPath THEN "NulError"
                            ELSE "Fail to load texture"
                /\ stdout' = << >>
                /\ glcalls' = << >>
                /\ UNCHANGED <<glTextures, glTextureBinding>>
           ELSE /\ textures' = [textures EXCEPT ![h].config = config, ![h].id = id]
                /\ glTextures' = Put(glTextures, id,
                      [ConfiguredObject(config) EXCEPT
                          !.image = [width |-> decoded.width, height |-> decoded.height,
                                     format |-> config.format],
                          !.mipmaps = config.bitmap])
                /\ glTextureBinding' = id
                /\ glcalls' = ConfigureCalls(id, config)
                      \o << TexImage2DCall(config, decoded.width, decoded.height) >>
                      \o (IF config.bitmap THEN << [fn |-> "GenerateMipmap"] >> ELSE << >>)
                /\ stdout' = << >>
                /\ UNCHANGED panic

\* gl::TexSubImage2D writes into the texture bound to TEXTURE_2D; it is an
\* error, and does nothing, when that texture has no image or the region
\* leaves the image
glTexSubImage2D(objs, bound, r) ==
    IF bound \notin DOMAIN objs THEN objs
    ELSE IF objs[bound].image = None THEN objs
    ELSE IF r.x + r.w > objs[bound].image.width
            \/ r.y + r.h > objs[bound].image.height THEN objs
    ELSE [objs EXCEPT ![bound].subimages = @ \cup {r}]

\* a send_data without the config.is_none() test
Texture2D_send_data_unguarded(h, r) ==
    /\ glTextures' = glTexSubImage2D(glTextures, glTextureBinding, r)
    /\ glcalls' = << [fn |-> "TexSubImage2D", xoffset |-> r.x, yoffset |-> r.y,
                      width |-> r.w, height |-> r.h, format |-> "Rgb"] >>
    /\ stdout' = << >>
    /\ op' = "Texture2D::send_data"
    /\ opSelf' = h
    /\ UNCHANGED <<textures, glTextureBinding, panic>>

Texture2D_send_data(h, r) ==
    /\ IF ~Configured(h)
       THEN /\ stdout' = << [msg |-> "A texture needs to be created first"] >>
            /\ glcalls' = << >>
            /\ UNCHANGED glTextures
       ELSE /\ glTextures' = glTexSubImage2D(glTextures, glTextureBinding, r)
            /\ glcalls' = << [fn |-> "TexSubImage2D", xoffset |-> r.x, yoffset |-> r.y,
                              width |-> r.w, height |-> r.h,
                              format |-> textures[h].config.format] >>
            /\ stdout' = << >>
    /\ op' = "Texture2D::send_data"
    /\ opSelf' = h
    /\ UNCHANGED <<textures, glTextureBinding, panic>>

Texture2D_bind(h) ==
    /\ glTextureBinding' = textures[h].id
    /\ glcalls' = << [fn |-> "BindTexture", target |-> "TEXTURE_2D",
                      texture |-> textures[h].id] >>
    /\ stdout' = << >>
    /\ op' = "Texture2D::bind"
    /\ opSelf' = h
    /\ UNCHANGED <<textures, glTextures, panic>>

\* Drop for Texture2D: DeleteTextures(1, &self.id); GL ignores the name 0, and
\* a deleted texture that was bound leaves the default texture bound
Texture2D_drop(h) ==
    /\ textures' = [textures EXCEPT ![h].state = "dropped"]
    /\ glTextures' = [n \in DOMAIN glTextures \ {textures[h].id} |-> glTextures[n]]
    /\ glTextureBinding' =
          IF textures[h].id # 0 /\ glTextureBinding = textures[h].id THEN 0
          ELSE glTextureBinding
    /\ glcalls' = << [fn |-> "DeleteTextures", texture |-> textures[h].id] >>
    /\ stdout' = << >>
    /\ op' = "Texture2D::drop"
    /\ opSelf' = h
    /\ UNCHANGED panic

GenTexture ==
    \E h \in LiveTextures :
        panic = "none" /\ Texture2D_gen_texture(h) /\ TextureFrame

LoadTextureFromMemory ==
    \E h \in LiveTextures, side \in TexSides :
        panic = "none" /\ Texture2D_load_from_memory(h, side, side) /\ TextureFrame

LoadTextureFromFile ==
    \E h \in LiveTextures :
    \E decoded \in {None, NulPath} \cup
                   {[width |-> d, height |-> d, channels |-> c] :
                       d \in TexSides, c \in Channels} :
        panic = "none" /\ Texture2D_load_from_file(h, decoded) /\ TextureFrame

SendTextureData ==
    \E h \in LiveTextures, r \in Regions :
        panic = "none" /\ Texture2D_send_data(h, r) /\ TextureFrame

BindTexture ==
    \E h \in LiveTextures :
        panic = "none" /\ Texture2D_bind(h) /\ TextureFrame

DropTexture ==
    \E h \in LiveTextures : Texture2D_drop(h) /\ TextureFrame

Init ==
    /\ op = "none"
    /\ opSelf = 0
    /\ glcalls = << >>
    /\ stdout = << >>
    /\ panic = "none"
    /\ vertex_attribs = << >>
    /\ submits = 0
    /\ program = 0
    /\ uniforms_location = << >>
    /\ shader_state = "live"
    /\ ret = "none"
    /\ loads = 0
    /\ setCalls = [n \in UniformNames |-> 0]
    /\ glNextName = 1
    /\ glShaders = {}
    /\ glPrograms = << >>
    /\ glUniformValues = << >>
    /\ glCurrentProgram = 0
    /\ glDeletePending = {}
    /\ createdPrograms = {}
    /\ deletedPrograms = EmptyBag
    /\ resolveCalls = EmptyBag
    /\ buffers = << >>
    /\ glBufferNames = {}
    /\ glBuffers = << >>
    /\ glBufferBinding = [t \in BufferTargets |-> 0]
    /\ glUniformBase = [k \in UniformSlots |-> 0]
    /\ vertex_arrays = << >>
    /\ glVertexArrayNames = {}
    /\ glVertexArrays = [v \in {0} |-> 0]
    /\ glVertexArrayBinding = 0
    /\ textures = [h \in TextureHandles |-> Texture2D_new]
    /\ glTextures = << >>
    /\ glTextureBinding = 0

NextLayout == PushAttrib \/ submit_vertex_attribs

SpecLayout == Init /\ [][NextLayout]_vars

NextShader ==
    \/ Shader_load_from_memory
    \/ Shader_load_from_file
    \/ Shader_bind
    \/ Shader_unbind
    \/ Shader_set_uniform
    \/ Shader_drop

SpecShader == Init /\ [][NextShader]_vars

NextBuffer ==
    \/ VertexArray_new
    \/ VertexArray_bind
    \/ VertexArray_unbind
    \/ VertexArray_drop
    \/ VertexBuffer_new
    \/ IndexBuffer_new
    \/ UniforBuffer_create
    \/ Buffer_bind
    \/ Buffer_unbind
    \/ ArrayBuffer_send_data
    \/ UniforBuffer_send_data
    \/ Buffer_drop

SpecBuffer == Init /\ [][NextBuffer]_vars

NextTexture ==
    \/ GenTexture
    \/ LoadTextureFromMemory
    \/ LoadTextureFromFile
    \/ SendTextureData
    \/ BindTexture
    \/ DropTexture

SpecTexture == Init /\ [][NextTexture]_vars

(***************************************************************************)
(* Properties of the Shader                                                 *)
(***************************************************************************)
LoadOps == {"Shader::load_from_memory", "Shader::load_from_file"}

\* the GetUniformLocation calls made so far for a name on the programs 0..q
RECURSIVE ResolvesUpTo(_, _, _)
ResolvesUpTo(calls, name, q) ==
    IF q < 0 THEN 0
    ELSE CopiesIn(<<q, name>>, calls) + ResolvesUpTo(calls, name, q - 1)

\* the positions of the calls of one GL function in a call sequence
CallsOf(calls, fn) == {k \in 1..Len(calls) : calls[k].fn = fn}

\* C2: when the Shader has resolved a name for a program it held before and
\* not yet for the program a later load has put in its place, a set_uniform
\* for that name issues a GetUniformLocation call against the program the
\* Shader holds now.
C2_StepFresh ==
    \A name \in UniformNames :
        ( /\ setCalls'[name] = setCalls[name] + 1
          /\ CopiesIn(<<program, name>>, resolveCalls) = 0
          /\ \E q \in createdPrograms \ {program} :
                CopiesIn(<<q, name>>, resolveCalls) > 0 )
        => CopiesIn(<<program, name>>, resolveCalls') = 1

C2_NoStaleLocation == [][C2_StepFresh]_vars

\* C3: every uniform name that set_uniform has been called with has been
\* resolved by exactly one GetUniformLocation call, made by its first use; a
\* later use issues only the uniform-set call, with the location the cache
\* holds, and leaves the cache as it is.
C3_Counts ==
    \A name \in UniformNames :
        /\ ResolvesUpTo(resolveCalls, name, glNextName) =
              (IF setCalls[name] > 0 THEN 1 ELSE 0)
        /\ (name \in DOMAIN uniforms_location) = (setCalls[name] > 0)

C3_Step ==
    \A name \in UniformNames :
        setCalls'[name] = setCalls[name] + 1 =>
            IF setCalls[name] = 0
            THEN /\ Cardinality(CallsOf(glcalls', "GetUniformLocation")) = 1
                 /\ glcalls'[1].fn = "GetUniformLocation"
                 /\ glcalls'[1].name = name
                 /\ uniforms_location'[name] = glcalls'[1].ret
                 /\ glcalls'[Len(glcalls')].location = glcalls'[1].ret
            ELSE /\ CallsOf(glcalls', "GetUniformLocation") = {}
                 /\ Len(glcalls') = 1
                 /\ glcalls'[1].location = uniforms_location[name]
                 /\ uniforms_location' = uniforms_location

C3_OneResolvePerName == [](C3_Counts) /\ [][C3_Step]_vars

\* a name whose location is the not-found value is used a second time, and
\* the second use made the uniform-set call only
C3_Witness ==
    /\ op = "Shader::set_uniform"
    /\ loads = 1
    /\ setCalls["u_a"] = 2
    /\ uniforms_location["u_a"] = -1
    /\ Len(glcalls) = 1
    /\ CopiesIn(<<program, "u_a">>, resolveCalls) = 1

\* C4: once the handle is dropped, every native object created through it has
\* been deleted exactly once (the units a panicking load leaves behind apart);
\* a program that is still there is one GL keeps while it is current.
C4_ReleasedExactlyOnce ==
    shader_state = "dropped" =>
        /\ \A p \in createdPrograms : CopiesIn(p, deletedPrograms) = 1
        /\ createdPrograms \cap DOMAIN glPrograms \subseteq glDeletePending
        /\ (panic = "none" => glShaders = {})

\* C6: a load that returns has printed one compiler diagnostic for every unit
\* that failed to compile, and a linker diagnostic if the link failed.
C6_FailuresPrinted ==
    (op \in LoadOps /\ panic = "none") =>
        /\ Cardinality({k \in CallsOf(glcalls, "GetShaderiv") : ~glcalls[k].ret}) =
              Cardinality({k \in 1..Len(stdout) : stdout[k].msg = "Compiling shader fail"})
        /\ \A k \in CallsOf(glcalls, "GetProgramiv") :
              ~glcalls[k].ret => \E j \in 1..Len(stdout) : stdout[j].msg = "Linking fail"

\* C7: a load whose sources could be read returns; it returns true exactly
\* when a unit failed to compile or the link failed; the Shader then holds
\* the program the load created; and every unit the load created is deleted
\* after the link.
C7_LoadOutcome ==
    (op \in LoadOps /\ panic # "Couldn't open the file") =>
        /\ panic = "none"
        /\ ret = ( \/ \E k \in CallsOf(glcalls, "GetShaderiv") : ~glcalls[k].ret
                   \/ \E k \in CallsOf(glcalls, "GetProgramiv") : ~glcalls[k].ret )
        /\ \E k \in CallsOf(glcalls, "CreateProgram") : program = glcalls[k].ret
        /\ \A k \in CallsOf(glcalls, "CreateShader") :
              /\ Cardinality({j \in CallsOf(glcalls, "DeleteShader") :
                                 glcalls[j].shader = glcalls[k].ret}) = 1
              /\ \A j \in CallsOf(glcalls, "DeleteShader") :
                    \A l \in CallsOf(glcalls, "LinkProgram") : l < j
        /\ CallsOf(glcalls, "LinkProgram") # {}

(***************************************************************************)
(* Properties of the buffers                                                *)
(***************************************************************************)
\* C5: the creation of a buffer leaves the new handle's buffer object with a
\* data store of the size passed to BufferData, and leaves the buffer object
\* of every handle created before, and still live, as it was.
C5_CreateStep ==
    Len(buffers') = Len(buffers) + 1 =>
        LET new == buffers'[Len(buffers')]
        IN  /\ new.id \in DOMAIN glBuffers'
            /\ \A k \in CallsOf(glcalls', "BufferData") :
                  glBuffers'[new.id].size = glcalls'[k].size
            /\ \A h \in 1..Len(buffers) :
                  buffers[h].state = "live" =>
                      glBuffers'[buffers[h].id] = glBuffers[buffers[h].id]

C5_NewAllocatesOwnStorage == [][C5_CreateStep]_vars

(***************************************************************************)
(* Properties of the Texture2D                                              *)
(***************************************************************************)
ConfigOps == {"Texture2D::gen_texture", "Texture2D::load_from_memory",
              "Texture2D::load_from_file"}

\* C8: a configuration call on an unconfigured texture, if it returns, issues
\* exactly one GenTextures call and leaves the texture configured with the
\* name generated; a configuration call on a configured texture issues no
\* native call and changes neither the handle nor the GL texture state; and
\* no operation changes the id or the config of a configured texture.
C8_Step ==
    /\ \A h \in TextureHandles :
          (op' \in ConfigOps /\ opSelf' = h) =>
              IF Configured(h)
              THEN /\ glcalls' = << >>
                   /\ stdout' = AlreadyCreated
                   /\ UNCHANGED <<textures, glTextures, glTextureBinding>>
              ELSE panic' = "none" =>
                   /\ Cardinality(CallsOf(glcalls', "GenTextures")) = 1
                   /\ textures'[h].config # None
                   /\ textures'[h].id = glcalls'[1].ret
                   /\ textures'[h].id \in DOMAIN glTextures'
                   /\ textures'[h].id \notin DOMAIN glTextures
    /\ \A h \in TextureHandles :
          Configured(h) => /\ textures'[h].id = textures[h].id
                           /\ textures'[h].config = textures[h].config

C8_ConfiguredOnce == [][C8_Step]_vars

\* a configuration call has been made on a texture that was configured
\* before, while the other texture is still unconfigured
C8_Witness ==
    /\ op \in ConfigOps
    /\ opSelf = 1
    /\ stdout = AlreadyCreated
    /\ glcalls = << >>
    /\ textures[1].id # 0
    /\ textures[1].config # None
    /\ DOMAIN glTextures = {textures[1].id}

\* C9: send_data on a texture that has never been configured issues no
\* native call, prints its diagnostic and changes neither the handles nor
\* the GL texture state.
C9_Step ==
    \A h \in TextureHandles :
        (op' = "Texture2D::send_data" /\ opSelf' = h /\ ~Configured(h)) =>
            /\ glcalls' = << >>
            /\ stdout' = << [msg |-> "A texture needs to be created first"] >>
            /\ UNCHANGED <<textures, glTextures, glTextureBinding, panic>>

C9_UnconfiguredWriteIsNoOp == [][C9_Step]_vars

\* send_data has been called on an unconfigured texture while another
\* texture, which has an image, was bound
C9_Witness ==
    /\ op = "Texture2D::send_data"
    /\ opSelf = 2
    /\ textures[2].config = None
    /\ glcalls = << >>
    /\ stdout = << [msg |-> "A texture needs to be created first"] >>
    /\ glTextureBinding = textures[1].id
    /\ glTextureBinding \in DOMAIN glTextures
    /\ glTextures[glTextureBinding].image # None

(***************************************************************************)
(* Properties of the vertex-attribute layout                                *)
(***************************************************************************)
DescribeFns == {"VertexAttribPointer", "VertexAttribIPointer"}

\* the byte sizes of the descriptors lo..hi of a list, added up
RECURSIVE SizeSum(_, _, _)
SizeSum(attribs, lo, hi) ==
    IF hi < lo THEN 0
    ELSE vertex_attrib_type_size(attribs[hi].vtype) + SizeSum(attribs, lo, hi - 1)

\* C1: after submit_vertex_attribs on any descriptor list, every describe call
\* carries the stride SUM(sizes) and descriptor i is left with, and described
\* at, the offset SUM(sizes of the descriptors before i).
C1_StrideAndOffsets ==
    op = "submit_vertex_attribs" =>
        \A i \in 1..Len(vertex_attribs) :
            /\ glcalls[2 * i - 1].stride =
                   SizeSum(vertex_attribs, 1, Len(vertex_attribs))
            /\ glcalls[2 * i - 1].pointer = SizeSum(vertex_attribs, 1, i - 1)
            /\ vertex_attribs[i].offset = SizeSum(vertex_attribs, 1, i - 1)

\* C10: submitting n descriptors issues exactly n describe calls, the i-th for
\* the i-th descriptor at slot i-1, each followed by the enabling of that slot,
\* and nothing else; for n = 0 no call at all.
C10_SlotsInOrder ==
    op = "submit_vertex_attribs" =>
        /\ Len(glcalls) = 2 * Len(vertex_attribs)
        /\ \A i \in 1..Len(vertex_attribs) :
              /\ glcalls[2 * i - 1].fn \in DescribeFns
              /\ glcalls[2 * i - 1].index = i - 1
              /\ glcalls[2 * i - 1].size =
                     vertex_attrib_type_count(vertex_attribs[i].vtype)
              /\ glcalls[2 * i - 1].type =
                     vertex_attrib_type_gl(vertex_attribs[i].vtype)
              /\ glcalls[2 * i] = [fn |-> "EnableVertexAttribArray", index |-> i - 1]
        /\ Cardinality({k \in 1..Len(glcalls) : glcalls[k].fn \in DescribeFns})
              = Len(vertex_attribs)

\* a list of three different element types has been submitted
C10_Witness ==
    /\ op = "submit_vertex_attribs"
    /\ Len(vertex_attribs) = 3
    /\ vertex_attribs[1].vtype = "Float3"
    /\ vertex_attribs[2].vtype = "Int2"
    /\ vertex_attribs[3].vtype = "Mat4"
    /\ Len(glcalls) = 6
    /\ glcalls[5].index = 2

\* the element types the layout contract calls integer-typed, and the others
IntegerTypes == {"Int", "Int2", "Int3", "Int4", "Byte"}
FloatingTypes == {"Float", "Float2", "Float3", "Float4", "Mat3", "Mat4"}

\* rows x cols of the matrix types
MatrixComponents == [Mat3 |-> 3 * 3, Mat4 |-> 4 * 4]

\* C11: in submit_vertex_attribs every attribute of an integer type (Int,
\* Int2, Int3, Int4, Byte) is described by VertexAttribIPointer and every
\* attribute of a floating type (Float..Float4, Mat3, Mat4) by
\* VertexAttribPointer; a matrix attribute gets one describe call, for one
\* slot, whose component count is rows x cols.
C11_PointerVariant ==
    op = "submit_vertex_attribs" =>
        /\ Len(glcalls) = 2 * Len(vertex_attribs)
        /\ \A i \in 1..Len(vertex_attribs) :
              LET t == vertex_attribs[i].vtype
                  c == glcalls[2 * i - 1]
              IN  /\ t \in IntegerTypes => c.fn = "VertexAttribIPointer"
                  /\ t \in FloatingTypes => c.fn = "VertexAttribPointer"
                  /\ t \in DOMAIN MatrixComponents =>
                        /\ c.size = MatrixComponents[t]
                        /\ c.index = i - 1
                        /\ glcalls[2 * i].fn = "EnableVertexAttribArray"

\* a float vector, a byte and a matrix have been submitted in one list
C11_Witness ==
    /\ op = "submit_vertex_attribs"
    /\ Len(vertex_attribs) = 3
    /\ vertex_attribs[1].vtype = "Float2"
    /\ vertex_attribs[2].vtype = "Byte"
    /\ vertex_attribs[3].vtype = "Mat3"
    /\ glcalls[1].fn = "VertexAttribPointer"
    /\ glcalls[3].fn = "VertexAttribIPointer"
    /\ glcalls[5].fn = "VertexAttribPointer"
    /\ glcalls[5].size = 9

\* the byte sizes and component counts of the layout table
SizeTable ==
    [Float |-> 4, Float2 |-> 8, Float3 |-> 12, Float4 |-> 16, Mat3 |-> 36,
     Mat4 |-> 64, Int |-> 4, Int2 |-> 8, Int3 |-> 12, Int4 |-> 16, Byte |-> 1]

CountTable ==
    [Float |-> 1, Float2 |-> 2, Float3 |-> 3, Float4 |-> 4, Mat3 |-> 9,
     Mat4 |-> 16, Int |-> 1, Int2 |-> 2, Int3 |-> 3, Int4 |-> 4, Byte |-> 1]

\* the width in bytes of one component
ComponentWidth(t) == IF t = "Byte" THEN 1 ELSE 4

\* C12: vertex_attrib_type_size and vertex_attrib_type_count give, for each of
\* the 11 element types, the byte size and the component count of the table,
\* the size being the count times the component width; every descriptor built
\* by VertexAttrib::new carries that size and every describe call that count.
C12_SizeCountTable ==
    /\ DOMAIN SizeTable = VertexAttribType
    /\ DOMAIN CountTable = VertexAttribType
    /\ \A t \in VertexAttribType :
          /\ vertex_attrib_type_size(t) = SizeTable[t]
          /\ vertex_attrib_type_count(t) = CountTable[t]
          /\ vertex_attrib_type_size(t) =
                 vertex_attrib_type_count(t) * ComponentWidth(t)
    /\ \A i \in 1..Len(vertex_attribs) :
          /\ vertex_attribs[i].size = SizeTable[vertex_attribs[i].vtype]
          /\ op = "submit_vertex_attribs" =>
                 glcalls[2 * i - 1].size = CountTable[vertex_attribs[i].vtype]

\* the two matrices and a byte have been built and submitted
C12_Witness ==
    /\ op = "submit_vertex_attribs"
    /\ Len(vertex_attribs) = 3
    /\ vertex_attribs[1].vtype = "Mat4" /\ vertex_attribs[1].size = 64
    /\ vertex_attribs[2].vtype = "Byte" /\ vertex_attribs[2].size = 1
    /\ vertex_attribs[3].vtype = "Mat3" /\ vertex_attribs[3].size = 36
    /\ glcalls[1].size = 16
    /\ glcalls[3].size = 1
    /\ glcalls[5].size = 9

\* C13: submitting the same descriptor list again is idempotent on the
\* layout: a submit_vertex_attribs that directly follows a
\* submit_vertex_attribs of the same list leaves every descriptor's offset as
\* it was and describes the attributes with the same stride and offsets.
C13_ResubmitStep ==
    (op = "submit_vertex_attribs" /\ op' = "submit_vertex_attribs"
     /\ submits' = submits + 1) =>
        /\ Len(vertex_attribs') = Len(vertex_attribs)
        /\ \A i \in 1..Len(vertex_attribs) :
              /\ vertex_attribs'[i].offset = vertex_attribs[i].offset
              /\ glcalls'[2 * i - 1].pointer = glcalls[2 * i - 1].pointer
              /\ glcalls'[2 * i - 1].stride = glcalls[2 * i - 1].stride

C13_ResubmitIdempotent == [][C13_ResubmitStep]_vars

(***************************************************************************)
(* Properties of the stage kinds and of the write operations                *)
(***************************************************************************)
\* the stage kinds of the vertex, the fragment and the geometry source
StageKinds == <<"VERTEX_SHADER", "FRAGMENT_SHADER", "GEOMETRY_SHADER">>

\* the CreateShader calls of a call list, in order
CreateShaderCalls(calls) == SelectSeq(calls, LAMBDA c : c.fn = "CreateShader")

\* C14: in load_from_memory and load_from_file the k-th stage source supplied
\* is compiled as a unit of its own kind: the first as a vertex shader, the
\* second as a fragment shader and the optional third as a geometry shader.
C14_StageKinds ==
    (op \in LoadOps /\ panic = "none") =>
        \A k \in 1..Len(CreateShaderCalls(glcalls)) :
            CreateShaderCalls(glcalls)[k].type = StageKinds[k]

\* C15: a write targets the handle's own native resource whatever is bound:
\* Texture2D::send_data on a configured texture leaves every texture object
\* other than the one whose id the handle holds as it was.
C15_WriteStep ==
    \A h \in TextureHandles :
        (op' = "Texture2D::send_data" /\ opSelf' = h /\ Configured(h)) =>
            \A n \in DOMAIN glTextures :
                n # textures[h].id =>
                    /\ n \in DOMAIN glTextures'
                    /\ glTextures'[n] = glTextures[n]

C15_WritesOwnResource == [][C15_WriteStep]_vars

====
